---------------------------- MODULE Spec2Model ----------------------------
(***************************************************************************)
(* State-machine model of the social media sentiment pipeline:             *)
(*   step 1  sentiment_gpt.py          SentimentAnalyzer                   *)
(*   step 2  divide_by_quarter.py      QuarterlyDataProcessor              *)
(*   step 3  line_chart_by_quarter.py  SentimentVisualizer                 *)
(*   driver  run_pipeline.py           run_* and main                      *)
(*                                                                         *)
(* Encoding of values.                                                     *)
(*  - A spreadsheet is a record [state, cols, rows]: state is "absent"     *)
(*    (no file at the path), "corrupt" (pd.read_excel raises) or "ok".     *)
(*  - A row is a record over the four column names the program uses; a     *)
(*    cell of a column the sheet lacks, and an empty cell, is NaN.         *)
(*  - A timestamp cell is a pair <<year, month>>; NaT (empty cell) and     *)
(*    BadTime (text pandas cannot parse) have year 0.                      *)
(*  - A percentage is the exact fraction [num, den] (floats are not        *)
(*    modelled; rounding is outside the model).                            *)
(***************************************************************************)
EXTENDS Integers, Sequences, FiniteSets, TLC

VARIABLES
    choice,          \* run_pipeline.main: the selected run mode "1".."5"
    stage,           \* the stage main is executing, "exit" when it is over
    success,         \* main's success flag
    config_valid,    \* what Config.validate_config() returns
    exit_code,       \* <<>> while main runs, then <<the exit status>>
    reports,         \* the stages that returned in this run, with what they returned
    runs,            \* how many times the program has been started
    batch_size,      \* SentimentAnalyzer.batch_size
    rawFile,         \* year -> filtered_tweets_{year}.xlsx
    resultsFile,     \* year -> results_{year}_sentiment.xlsx
    partition,       \* <<year string, quarter>> -> {year}_{quarter}.xlsx
    yearIdx,         \* run_sentiment_analysis: position in ANALYSIS_YEARS
    apc,             \* analyze_file: "idle" or "loop"
    documents,       \* analyze_file: documents
    results,         \* analyze_file: results
    idx,             \* analyze_file: loop variable i
    lastResponse,    \* the classifier's answer to the most recent chunk
    calls,           \* the chunks the classifier was called with for this file
    delays,          \* the pacing delays performed for this file
    sleeping,        \* analyze_file is at time.sleep(self.api_delay)
    files,           \* process_all_files: files (as years)
    fileIdx,         \* process_all_files: position in files
    ppc,             \* QuarterlyDataProcessor: "start", "files" or "save"
    df,              \* process_single_file: df (columns and rows)
    year,            \* process_single_file: year
    quarterly_data,  \* process_single_file: quarterly_data
    processed_count, \* process_single_file: processed_count
    skipped_count,   \* process_single_file: skipped_count
    qIdx,            \* process_single_file: position in the save loop
    sentiment_data,  \* SentimentVisualizer.sentiment_data (as a row sequence)
    cursor           \* collect_data: position in the (year, quarter) loop

vars == <<choice, stage, success, config_valid, exit_code, reports, runs, batch_size, rawFile, resultsFile,
          partition, yearIdx, apc, documents, results, idx, lastResponse,
          calls, delays, sleeping,
          files, fileIdx, ppc, df, year, quarterly_data, processed_count,
          skipped_count, qIdx, sentiment_data, cursor>>

analyzerVars == <<yearIdx, apc, documents, results, idx, lastResponse,
                  calls, delays, sleeping>>
processorVars == <<files, fileIdx, ppc, df, year, quarterly_data,
                   processed_count, skipped_count, qIdx>>
visualizerVars == <<sentiment_data, cursor>>

-----------------------------------------------------------------------------
(* Bounds of the model *)

MaxDocs == 3      \* rows of a raw input file
MaxBatch == 2     \* largest batch_size tried
MaxRows == 2      \* rows of a results file given to step 2
MaxRuns == 2      \* program starts
MaxLabels == 2    \* rows of a pre-existing partition given to step 3
MaxTexts == 5     \* texts of a file given to the chunking runs

-----------------------------------------------------------------------------
(* Configuration (config.py) *)

ANALYSIS_YEARS == <<2024, 2025>>

Quarters == <<"Q1", "Q2", "Q3", "Q4">>

YearSet == {ANALYSIS_YEARS[i] : i \in DOMAIN ANALYSIS_YEARS}

\* str(year), as the f-strings of config.py and str() in divide_by_quarter do
YearStr(y) == ToString(y)

get_quarterly_file_path(y, q) == <<y, q>>

\* year_range = (min(ANALYSIS_YEARS), max(ANALYSIS_YEARS))
MinYear == CHOOSE y \in YearSet : \A z \in YearSet : y <= z
MaxYear == CHOOSE y \in YearSet : \A z \in YearSet : z <= y

\* the partition files the program can name
PartitionKeys == {get_quarterly_file_path(YearStr(y), Quarters[i]) :
                      y \in MinYear..MaxYear, i \in DOMAIN Quarters}

-----------------------------------------------------------------------------
(* Cells, rows, spreadsheets *)

NaN == "NaN"
NaT == <<0, 0>>
BadTime == <<0, 1>>

ClassLabels == {"Positive", "Negative", "Neutral"}

Row(tweet, time, text, sentiment) ==
    [Tweet_Content |-> tweet, UTC_Time |-> time, text |-> text,
     sentiment |-> sentiment]

Absent == [state |-> "absent", cols |-> {}, rows |-> <<>>]
Corrupt == [state |-> "corrupt", cols |-> {}, rows |-> <<>>]
Sheet(cols, rows) == [state |-> "ok", cols |-> cols, rows |-> rows]

\* os.path.exists
Exists(f) == f.state # "absent"

\* pd.read_excel raises (missing or unparseable file)
ReadFails(f) == f.state # "ok"

SeqsUpTo(S, n) == UNION {[1..k -> S] : k \in 0..n}

Min(a, b) == IF a < b THEN a ELSE b


-----------------------------------------------------------------------------
(* run_pipeline.main: which stage follows which *)

Choices == {"1", "2", "3", "4", "5"}

FirstStage(c) ==
    CASE c \in {"1", "4"} -> "analysis"
      [] c \in {"2", "5"} -> "division"
      [] OTHER -> "visualization"

\* the next stage is entered whatever the stage before returned
NextStage_NoShortCircuit(c, s, ok) ==
    CASE c = "4" /\ s = "analysis" -> "division"
      [] c \in {"4", "5"} /\ s = "division" -> "visualization"
      [] OTHER -> "exit"

\* `a and b and c` short-circuits: a stage runs only if the one before
\* returned True
NextStage(c, s, ok) ==
    IF ~ok THEN "exit"
    ELSE CASE c = "4" /\ s = "analysis" -> "division"
           [] c \in {"4", "5"} /\ s = "division" -> "visualization"
           [] OTHER -> "exit"

\* the status main ends with: sys.exit(1) unless success
ExitStatus(ok) == IF ok THEN 0 ELSE 1

\* a run_* function returned ok to main: the result is kept, the next stage
\* of the mode is entered or main ends
StageReturns(s, ok) ==
    /\ success' = ok
    /\ stage' = NextStage(choice, s, ok)
    /\ reports' = Append(reports, [stage |-> s, ok |-> ok])
    /\ exit_code' = IF stage' = "exit" THEN <<ExitStatus(ok)>> ELSE exit_code

-----------------------------------------------------------------------------
(* Step 1: SentimentAnalyzer *)

\* pd.read_excel(file_path, usecols=["Tweet_Content"]) raises when the file
\* cannot be read or has no such column
ExtractRaises(f) == ReadFails(f) \/ "Tweet_Content" \notin f.cols

\* df["Tweet_Content"].dropna().tolist()
extract_text_from_excel(f) ==
    LET kept == SelectSeq(f.rows, LAMBDA r : r.Tweet_Content # NaN)
    IN  [i \in 1..Len(kept) |-> kept[i].Tweet_Content]

\* What the chat completion call can come back with.  kind:
\*   "transport"   the API call raises
\*   "none"        message.content is None (.strip() raises)
\*   "empty"       content is blank (ValueError is raised)
\*   "unparseable" json.loads raises
\*   "notobject"   the JSON value is not an object (.get raises)
\*   "nokey"       an object without "sentiments": .get gives []
\*   "null"        "sentiments" is null
\*   "string"      "sentiments" is a string; value holds its characters
\*   "list"        "sentiments" is a list; value holds its elements
FailKinds == {"transport", "none", "empty", "unparseable", "notobject"}

AdapterLabels == ClassLabels \cup {"positive", NaN}

Chars == {"N"}

Response(kind, value) == [kind |-> kind, value |-> value]

\* the answers tried for a chunk of n texts: every failure, and lists and
\* strings of 0..n elements or of n elements and one more
Responses(n) ==
    {Response(k, <<>>) : k \in FailKinds \cup {"nokey", "null"}}
    \cup {Response("list", v) : v \in SeqsUpTo(AdapterLabels, n)}
    \cup {Response("list", Append(v, "Negative")) : v \in [1..n -> AdapterLabels]}
    \cup {Response("string", v) : v \in SeqsUpTo(Chars, n + 1)}

\* the fallback label misspelt
NeutralList_Lowercase(n) == [j \in 1..n |-> "neutral"]

NeutralList(n) == [j \in 1..n |-> "Neutral"]

\* an exception is raised inside the try block of classify_sentiment_batch
BatchRaises(texts, r) ==
    \/ r.kind \in FailKinds
    \/ r.kind = "null"                                  \* len(None)
    \/ r.kind = "string" /\ Len(r.value) < Len(texts)   \* str has no extend

\* the shortfall padded in front of the returned labels
AlignCount_PadFront(sentiments, len_text) ==
    IF Len(sentiments) = len_text THEN sentiments
    ELSE IF Len(sentiments) < len_text
         THEN [j \in 1..(len_text - Len(sentiments)) |-> "Neutral"] \o sentiments
         ELSE SubSeq(sentiments, 1, len_text)

\* the count matching of classify_sentiment_batch
AlignCount(sentiments, len_text) ==
    IF Len(sentiments) = len_text THEN sentiments
    ELSE IF Len(sentiments) < len_text
         THEN sentiments \o NeutralList(len_text - Len(sentiments))
         ELSE SubSeq(sentiments, 1, len_text)

classify_sentiment_batch(texts, r) ==
    IF BatchRaises(texts, r) THEN NeutralList(Len(texts))
    ELSE AlignCount(r.value, Len(texts))

\* the slice one element longer than the batch size
BatchAt_Overlong(docs, i, b) == SubSeq(docs, i + 1, Min(i + b + 1, Len(docs)))

\* the slice started one element late
BatchAt_OffByOne(docs, i, b) == SubSeq(docs, i + 2, Min(i + b, Len(docs)))

\* documents[i:i + self.batch_size], i counted from 0
BatchAt(docs, i, b) == SubSeq(docs, i + 1, Min(i + b, Len(docs)))

\* zip(batch, sentiments), then the fill of the positions zip did not reach
LabelBatch(batch, sentiments) ==
    LET z == Min(Len(batch), Len(sentiments))
    IN  [j \in 1..z |-> [text |-> batch[j], sentiment |-> sentiments[j]]]
        \o [j \in 1..(Len(batch) - z) |->
               [text |-> batch[z + j], sentiment |-> "Neutral"]]

\* the final validation of analyze_file
FinalValidation(res, docs) ==
    IF Len(res) >= Len(docs) THEN res
    ELSE res \o [j \in 1..(Len(docs) - Len(res)) |->
                    [text |-> docs[Len(res) + j], sentiment |-> "Neutral"]]

\* pd.DataFrame(results).to_excel(output_file, index=False)
ResultsSheet(res) ==
    Sheet({"text", "sentiment"},
          [j \in 1..Len(res) |-> Row(NaN, NaT, res[j].text, res[j].sentiment)])

NoResponse == Response("none", <<>>)

\* analyze_file up to the loop: an exception of extract_text_from_excel
\* leaves analyze_file and run_sentiment_analysis returns False; no
\* documents: analyze_file returns without writing
AnalyzeFileStart ==
    /\ stage = "analysis" /\ apc = "idle" /\ yearIdx <= Len(ANALYSIS_YEARS)
    /\ LET f == rawFile[ANALYSIS_YEARS[yearIdx]] IN
       IF ExtractRaises(f)
       THEN /\ StageReturns("analysis", FALSE)
            /\ UNCHANGED <<yearIdx, apc, documents, results, idx, calls, delays>>
       ELSE /\ documents' = extract_text_from_excel(f)
            /\ results' = <<>>
            /\ idx' = 0
            /\ calls' = <<>> /\ delays' = 0
            /\ IF documents' = <<>>
               THEN yearIdx' = yearIdx + 1 /\ apc' = "idle"
               ELSE yearIdx' = yearIdx /\ apc' = "loop"
            /\ UNCHANGED <<stage, success, exit_code, reports>>
    /\ lastResponse' = NoResponse
    /\ sleeping' = FALSE
    /\ UNCHANGED <<choice, config_valid, runs, batch_size, rawFile, resultsFile,
                   partition>>
    /\ UNCHANGED processorVars /\ UNCHANGED visualizerVars

\* one iteration of the batch loop up to time.sleep: the slice, the one
\* call of classify_sentiment_batch and the records of the chunk; the
\* classifier answers a chunk of n texts with one of answers[n]
ClassifyChunkOver(answers) ==
    /\ stage = "analysis" /\ apc = "loop" /\ idx < Len(documents)
    /\ ~sleeping
    /\ LET batch == BatchAt(documents, idx, batch_size) IN
       /\ calls' = Append(calls, batch)
       /\ \E r \in answers[Len(batch)] :
             /\ lastResponse' = r
             /\ results' = results \o LabelBatch(batch, classify_sentiment_batch(batch, r))
    /\ idx' = idx + batch_size
    /\ sleeping' = TRUE
    /\ UNCHANGED <<yearIdx, apc, documents, delays>>
    /\ UNCHANGED <<config_valid, exit_code, reports>>
    /\ UNCHANGED <<choice, stage, success, runs, batch_size, rawFile,
                   resultsFile, partition>>
    /\ UNCHANGED processorVars /\ UNCHANGED visualizerVars

ClassifyChunk == ClassifyChunkOver([n \in 0..Len(documents) |-> Responses(n)])

\* time.sleep(self.api_delay) at the end of an iteration, behind the try
\* statement: it is reached whether the chunk failed or not
PacingDelay ==
    /\ stage = "analysis" /\ apc = "loop" /\ sleeping
    /\ delays' = delays + 1
    /\ sleeping' = FALSE
    /\ UNCHANGED <<yearIdx, apc, documents, results, idx, lastResponse, calls>>
    /\ UNCHANGED <<config_valid, exit_code, reports>>
    /\ UNCHANGED <<choice, stage, success, runs, batch_size, rawFile,
                   resultsFile, partition>>
    /\ UNCHANGED processorVars /\ UNCHANGED visualizerVars

\* analyze_file after the loop: final validation and save
AnalyzeFileSave ==
    /\ stage = "analysis" /\ apc = "loop" /\ idx >= Len(documents)
    /\ ~sleeping
    /\ results' = FinalValidation(results, documents)
    /\ resultsFile' = [resultsFile EXCEPT ![ANALYSIS_YEARS[yearIdx]] =
                           ResultsSheet(results')]
    /\ yearIdx' = yearIdx + 1
    /\ apc' = "idle"
    /\ UNCHANGED <<documents, idx, calls, delays, sleeping>>
    /\ lastResponse' = NoResponse
    /\ UNCHANGED <<config_valid, exit_code, reports>>
    /\ UNCHANGED <<choice, stage, success, runs, batch_size, rawFile, partition>>
    /\ UNCHANGED processorVars /\ UNCHANGED visualizerVars

\* run_sentiment_analysis returns True after the last year
RunSentimentAnalysisEnd ==
    /\ stage = "analysis" /\ apc = "idle" /\ yearIdx > Len(ANALYSIS_YEARS)
    /\ StageReturns("analysis", TRUE)
    /\ UNCHANGED <<choice, config_valid, runs, batch_size, rawFile, resultsFile,
                   partition>>
    /\ UNCHANGED analyzerVars
    /\ UNCHANGED processorVars /\ UNCHANGED visualizerVars


-----------------------------------------------------------------------------
(* Step 2: QuarterlyDataProcessor *)

QuarterSet == {Quarters[i] : i \in DOMAIN Quarters}

\* the first branch tests month < 3, so March falls through to the else
get_quarter_MarchLost(month) ==
    IF 1 <= month /\ month < 3 THEN "Q1"
    ELSE IF 4 <= month /\ month <= 6 THEN "Q2"
    ELSE IF 7 <= month /\ month <= 9 THEN "Q3"
    ELSE "Q4"

get_quarter(month) ==
    IF 1 <= month /\ month <= 3 THEN "Q1"
    ELSE IF 4 <= month /\ month <= 6 THEN "Q2"
    ELSE IF 7 <= month /\ month <= 9 THEN "Q3"
    ELSE "Q4"

\* pd.to_datetime(..., errors='coerce'): what does not parse becomes NaT
ToDatetime(v) == IF v[1] > 0 THEN v ELSE NaT

\* pd.notna on a converted timestamp
NotNa(t) == t # NaT

\* the name process_all_files gives the file of a year, cut at "_" and each
\* piece cut at "."
FileNameParts(y) == <<<<"results">>, <<YearStr(y)>>, <<"sentiment", "xlsx">>>>

\* filename.split("_")[-1].split(".")[0]
YearHint(parts) == parts[Len(parts)][1]

\* str.isdigit on the pieces a file name is made of
IsDigit(piece) == piece \in {YearStr(y) : y \in YearSet}

\* Series.mode()[0]: the most frequent value, the smallest one on a tie
Mode(values) ==
    LET Count(v) == Cardinality({i \in DOMAIN values : values[i] = v})
        S == {values[i] : i \in DOMAIN values}
        top == {v \in S : \A w \in S : Count(w) <= Count(v)}
    IN  CHOOSE v \in top : \A w \in top : v <= w

\* the year of process_single_file: from the file name if its last piece
\* is a number, otherwise the most frequent year of the valid timestamps
ResolveYear(parts, rows) ==
    IF IsDigit(YearHint(parts)) THEN YearHint(parts)
    ELSE LET valid == SelectSeq(rows, LAMBDA r : NotNa(r.UTC_Time))
         IN  IF Len(valid) > 0
             THEN YearStr(Mode([i \in 1..Len(valid) |-> valid[i].UTC_Time[1]]))
             ELSE "unknown"

\* the row-by-row loop: the rows with a timestamp, by quarter
Bucket(rows, q) ==
    SelectSeq(rows, LAMBDA r : NotNa(r.UTC_Time) /\ get_quarter(r.UTC_Time[2]) = q)

\* the rows of the bucket already in the partition are left out
MergeSheets_Dedup(existing, rows, cols) ==
    IF Exists(existing)
    THEN Sheet(existing.cols \cup cols,
               existing.rows \o SelectSeq(rows, LAMBDA r :
                   \A i \in DOMAIN existing.rows : existing.rows[i] # r))
    ELSE Sheet(cols, rows)

\* pd.concat([existing_df, pd.DataFrame(rows)]) if the file exists,
\* pd.DataFrame(rows) otherwise
MergeSheets(existing, rows, cols) ==
    IF Exists(existing)
    THEN Sheet(existing.cols \cup cols, existing.rows \o rows)
    ELSE Sheet(cols, rows)

\* process_all_files up to the loop: the result files that exist
ProcessAllFilesStart ==
    /\ stage = "division" /\ ppc = "start"
    /\ files' = SelectSeq(ANALYSIS_YEARS, LAMBDA y : Exists(resultsFile[y]))
    /\ fileIdx' = 1
    /\ ppc' = "files"
    /\ UNCHANGED <<df, year, quarterly_data, processed_count, skipped_count, qIdx>>
    /\ UNCHANGED <<config_valid, exit_code, reports>>
    /\ UNCHANGED <<choice, stage, success, runs, batch_size, rawFile,
                   resultsFile, partition>>
    /\ UNCHANGED analyzerVars /\ UNCHANGED visualizerVars

\* process_single_file up to the save loop; a file that cannot be read or
\* has no UTC_Time column raises, which the function reports and returns
ProcessSingleFileRead ==
    /\ stage = "division" /\ ppc = "files" /\ fileIdx <= Len(files)
    /\ LET f == resultsFile[files[fileIdx]] IN
       IF ReadFails(f) \/ "UTC_Time" \notin f.cols
       THEN /\ fileIdx' = fileIdx + 1
            /\ UNCHANGED <<ppc, df, year, quarterly_data, processed_count,
                           skipped_count, qIdx>>
       ELSE /\ df' = [cols |-> f.cols,
                      rows |-> [i \in DOMAIN f.rows |->
                          [f.rows[i] EXCEPT !.UTC_Time = ToDatetime(@)]]]
            /\ year' = ResolveYear(FileNameParts(files[fileIdx]), df'.rows)
            /\ quarterly_data' = [q \in QuarterSet |-> Bucket(df'.rows, q)]
            /\ processed_count' =
                   Cardinality({i \in DOMAIN df'.rows : NotNa(df'.rows[i].UTC_Time)})
            /\ skipped_count' =
                   Cardinality({i \in DOMAIN df'.rows : ~NotNa(df'.rows[i].UTC_Time)})
            /\ qIdx' = 1
            /\ ppc' = "save"
            /\ UNCHANGED fileIdx
    /\ UNCHANGED files
    /\ UNCHANGED <<config_valid, exit_code, reports>>
    /\ UNCHANGED <<choice, stage, success, runs, batch_size, rawFile,
                   resultsFile, partition>>
    /\ UNCHANGED analyzerVars /\ UNCHANGED visualizerVars

\* one iteration of the save loop.  Reading an existing partition that
\* cannot be parsed raises: the exception leaves the loop and ends
\* process_single_file
SaveQuarter ==
    /\ stage = "division" /\ ppc = "save" /\ qIdx <= Len(Quarters)
    /\ LET rows == quarterly_data[Quarters[qIdx]]
           path == get_quarterly_file_path(year, Quarters[qIdx])
       IN  IF rows = <<>>
           THEN qIdx' = qIdx + 1 /\ UNCHANGED <<partition, ppc, fileIdx>>
           ELSE IF Exists(partition[path]) /\ ReadFails(partition[path])
           THEN /\ ppc' = "files" /\ fileIdx' = fileIdx + 1
                /\ UNCHANGED <<partition, qIdx>>
           ELSE /\ partition' = [partition EXCEPT ![path] =
                                    MergeSheets(partition[path], rows, df.cols)]
                /\ qIdx' = qIdx + 1
                /\ UNCHANGED <<ppc, fileIdx>>
    /\ UNCHANGED <<files, df, year, quarterly_data, processed_count, skipped_count>>
    /\ UNCHANGED <<config_valid, exit_code, reports>>
    /\ UNCHANGED <<choice, stage, success, runs, batch_size, rawFile, resultsFile>>
    /\ UNCHANGED analyzerVars /\ UNCHANGED visualizerVars

\* process_single_file returns after the save loop
ProcessSingleFileEnd ==
    /\ stage = "division" /\ ppc = "save" /\ qIdx > Len(Quarters)
    /\ ppc' = "files"
    /\ fileIdx' = fileIdx + 1
    /\ UNCHANGED <<files, df, year, quarterly_data, processed_count,
                   skipped_count, qIdx>>
    /\ UNCHANGED <<config_valid, exit_code, reports>>
    /\ UNCHANGED <<choice, stage, success, runs, batch_size, rawFile,
                   resultsFile, partition>>
    /\ UNCHANGED analyzerVars /\ UNCHANGED visualizerVars

\* process_all_files returns (no file, or all files done) and
\* run_quarterly_division returns True
RunQuarterlyDivisionEnd ==
    /\ stage = "division" /\ ppc = "files" /\ fileIdx > Len(files)
    /\ StageReturns("division", TRUE)
    /\ UNCHANGED <<choice, config_valid, runs, batch_size, rawFile, resultsFile,
                   partition>>
    /\ UNCHANGED analyzerVars /\ UNCHANGED processorVars
    /\ UNCHANGED visualizerVars

-----------------------------------------------------------------------------
(* Step 3: SentimentVisualizer *)

find_sentiment_column(f) == "sentiment" \in f.cols

Pct(num, den) == [num |-> num, den |-> den]

\* df[col].value_counts(normalize=True) * 100, then .get(label, 0): the
\* share of `label` among the cells that are not empty, 0 for a label that
\* does not occur
ValueCountsGet(rows, label) ==
    LET filled == {i \in DOMAIN rows : rows[i].sentiment # NaN}
        count == Cardinality({i \in filled : rows[i].sentiment = label})
    IN  IF count = 0 THEN Pct(0, 1) ELSE Pct(100 * count, Cardinality(filled))

\* the sum of two shares
PctAdd(a, b) == Pct(a.num * b.den + b.num * a.den, a.den * b.den)

TrendRow(name, rows) ==
    [quarter |-> name,
     positive |-> PctAdd(ValueCountsGet(rows, "Positive"), ValueCountsGet(rows, "positive")),
     negative |-> PctAdd(ValueCountsGet(rows, "Negative"), ValueCountsGet(rows, "negative")),
     neutral |-> PctAdd(ValueCountsGet(rows, "Neutral"), ValueCountsGet(rows, "neutral"))]

\* a quarter that cannot be read is given a row of zeros
process_quarterly_file_ZeroFill(f, name) ==
    IF ReadFails(f) THEN <<TrendRow(name, <<>>)>>
    ELSE IF ~find_sentiment_column(f) THEN <<>>
    ELSE <<TrendRow(name, f.rows)>>

\* process_quarterly_file: the rows it appends to sentiment_data (none when
\* it returns False)
process_quarterly_file(f, name) ==
    IF ReadFails(f) THEN <<>>
    ELSE IF ~find_sentiment_column(f) THEN <<>>
    ELSE <<TrendRow(name, f.rows)>>

\* the number of iterations of collect_data's two loops
CollectSteps == (MaxYear - MinYear + 1) * Len(Quarters)

\* the (year, quarter) of the n-th iteration
CollectYear(n) == MinYear + ((n - 1) \div Len(Quarters))
CollectQuarter(n) == Quarters[((n - 1) % Len(Quarters)) + 1]

\* one iteration of collect_data
CollectDataStep ==
    /\ stage = "visualization" /\ cursor <= CollectSteps
    /\ LET file_path == get_quarterly_file_path(YearStr(CollectYear(cursor)),
                                                CollectQuarter(cursor))
           quarter_name == <<YearStr(CollectYear(cursor)), CollectQuarter(cursor)>>
       IN  sentiment_data' =
               IF Exists(partition[file_path])
               THEN sentiment_data \o process_quarterly_file(partition[file_path], quarter_name)
               ELSE sentiment_data
    /\ cursor' = cursor + 1
    /\ UNCHANGED <<config_valid, exit_code, reports>>
    /\ UNCHANGED <<choice, stage, success, runs, batch_size, rawFile,
                   resultsFile, partition>>
    /\ UNCHANGED analyzerVars /\ UNCHANGED processorVars

\* generate_chart returns at once when there is no trend row; otherwise it
\* draws, writes the picture and shows it, any of which may raise
ChartMayRaise(data) == IF data = <<>> THEN {FALSE} ELSE BOOLEAN

\* collect_data is over; the chart is drawn and run_visualization returns
\* True, or False if an exception was raised
RunVisualizationEnd ==
    /\ stage = "visualization" /\ cursor > CollectSteps
    /\ \E raised \in ChartMayRaise(sentiment_data) :
           StageReturns("visualization", ~raised)
    /\ UNCHANGED <<choice, config_valid, runs, batch_size, rawFile, resultsFile,
                   partition>>
    /\ UNCHANGED analyzerVars /\ UNCHANGED processorVars
    /\ UNCHANGED visualizerVars

-----------------------------------------------------------------------------
(* The program is started again: the files stay, everything else is new *)

RunAgain ==
    /\ stage = "exit" /\ runs < MaxRuns
    /\ runs' = runs + 1
    /\ stage' = FirstStage(choice)
    /\ success' = TRUE
    /\ exit_code' = <<>> /\ reports' = <<>>
    /\ yearIdx' = 1 /\ apc' = "idle" /\ documents' = <<>> /\ results' = <<>>
    /\ idx' = 0 /\ lastResponse' = NoResponse
    /\ calls' = <<>> /\ delays' = 0 /\ sleeping' = FALSE
    /\ files' = <<>> /\ fileIdx' = 1 /\ ppc' = "start"
    /\ df' = [cols |-> {}, rows |-> <<>>]
    /\ year' = "unknown"
    /\ quarterly_data' = [q \in QuarterSet |-> <<>>]
    /\ processed_count' = 0 /\ skipped_count' = 0 /\ qIdx' = 1
    /\ sentiment_data' = <<>> /\ cursor' = 1
    /\ UNCHANGED <<choice, config_valid, batch_size, rawFile, resultsFile, partition>>

-----------------------------------------------------------------------------
(* Initial states *)

EnginesIdle ==
    /\ yearIdx = 1 /\ apc = "idle" /\ documents = <<>> /\ results = <<>>
    /\ idx = 0 /\ lastResponse = NoResponse
    /\ calls = <<>> /\ delays = 0 /\ sleeping = FALSE
    /\ files = <<>> /\ fileIdx = 1 /\ ppc = "start"
    /\ df = [cols |-> {}, rows |-> <<>>]
    /\ year = "unknown"
    /\ quarterly_data = [q \in QuarterSet |-> <<>>]
    /\ processed_count = 0 /\ skipped_count = 0 /\ qIdx = 1
    /\ sentiment_data = <<>> /\ cursor = 1

\* main has validated the configuration and read the choice c
Started(c) ==
    /\ choice = c /\ stage = FirstStage(c) /\ success = TRUE /\ runs = 1
    /\ config_valid = TRUE /\ exit_code = <<>> /\ reports = <<>>

Texts == {"a", "b"}

RawCols == {"Tweet_Content", "UTC_Time"}

\* raw input files of at most MaxDocs rows, some of them without text
RawSheets ==
    {Sheet(RawCols, [i \in DOMAIN ts |-> Row(ts[i], NaT, NaN, NaN)]) :
         ts \in SeqsUpTo(Texts \cup {NaN}, MaxDocs)}

\* a raw input file step 1 cannot use: missing, or without the text column
BadRawSheets == {Absent, Sheet({"UTC_Time"}, <<Row(NaN, NaT, NaN, NaN)>>)}

OneTweet == Sheet(RawCols, <<Row("b", NaT, NaN, NaN)>>)

\* a raw file none of whose rows has text
NoTextSheet == Sheet(RawCols, <<Row(NaN, NaT, NaN, NaN)>>)

\* the raw files of a run: any file for the first year followed by unusable
\* or textless ones, or an unusable first file followed by one-tweet files
RawFileSets ==
    {[y \in YearSet |-> IF y = ANALYSIS_YEARS[1] THEN a ELSE b] :
         a \in RawSheets, b \in BadRawSheets \cup {NoTextSheet}}
    \cup {[y \in YearSet |-> IF y = ANALYSIS_YEARS[1] THEN a ELSE OneTweet] :
              a \in BadRawSheets}

NoResults == [y \in YearSet |-> Absent]
NoPartitions == [k \in PartitionKeys |-> Absent]

InitClassify ==
    /\ Started("1") /\ EnginesIdle
    /\ batch_size \in 1..MaxBatch
    /\ rawFile \in RawFileSets
    /\ resultsFile = NoResults
    /\ partition = NoPartitions

NextClassify ==
    \/ AnalyzeFileStart
    \/ ClassifyChunk
    \/ PacingDelay
    \/ AnalyzeFileSave
    \/ RunSentimentAnalysisEnd

SpecClassify == InitClassify /\ [][NextClassify]_vars


-----------------------------------------------------------------------------
(* Step 1: properties *)

\* the positions of documents the most recent chunk covered
LastChunk == (idx - batch_size + 1)..Min(idx, Len(documents))

ChunkDone == stage = "analysis" /\ apc = "loop" /\ idx > 0

SavedTexts(y) ==
    [j \in 1..Len(resultsFile[y].rows) |-> resultsFile[y].rows[j].text]

\* C1: analyze_file emits exactly one labeled record per input text, in
\* input order: while the loop runs the records labeled so far are the
\* texts of the chunks done so far, and the saved output has the length of
\* the input and carries the i-th input text in its i-th record, whatever
\* the adapter answered for each chunk.
C1_OneRecordPerText ==
    /\ apc = "loop" =>
          /\ Len(results) = Min(idx, Len(documents))
          /\ \A j \in 1..Len(results) : results[j].text = documents[j]
    /\ \A y \in YearSet :
          resultsFile[y].state = "ok" =>
              SavedTexts(y) = extract_text_from_excel(rawFile[y])

\* a file of several chunks was saved and holds two different texts
C1_Witness ==
    \E y \in YearSet :
        /\ resultsFile[y].state = "ok"
        /\ Len(resultsFile[y].rows) > batch_size
        /\ \E i, j \in 1..Len(resultsFile[y].rows) :
               i < j /\ SavedTexts(y)[i] # SavedTexts(y)[j]

\* C2: every label the engine emits is one of Positive, Negative, Neutral,
\* whatever the adapter returned in its label list.
C2_LabelsAreClasses ==
    /\ \A j \in 1..Len(results) : results[j].sentiment \in ClassLabels
    /\ \A y \in YearSet : \A j \in 1..Len(resultsFile[y].rows) :
           resultsFile[y].rows[j].sentiment \in ClassLabels

\* the adapter call failed outright: an error of the call, or an exception
\* while its answer was taken apart
FailedOutright(r, n) ==
    \/ r.kind \in {"transport", "none", "empty", "unparseable", "notobject"}
    \/ r.kind = "null"
    \/ r.kind = "string" /\ Len(r.value) < n

C3_FailedChunk ==
    (ChunkDone /\ FailedOutright(lastResponse, Cardinality(LastChunk))) =>
        /\ Len(results) = Min(idx, Len(documents))
        /\ \A p \in LastChunk :
               results[p] = [text |-> documents[p], sentiment |-> "Neutral"]
        /\ success

C3_OtherChunksKept ==
    (apc = "loop" /\ apc' = "loop" /\ results' # results) =>
        /\ SubSeq(results', 1, Len(results)) = results
        /\ idx' = idx + batch_size

\* C3: when the adapter call for a chunk fails outright, every record of
\* that chunk is labeled Neutral, the stage has not failed (no exception
\* left the engine) and the loop goes on behind the chunk; labeling a chunk
\* never changes the records of the chunks before it.
C3_FailSoft == []C3_FailedChunk /\ [][C3_OtherChunksKept]_vars

\* a later chunk failed outright after an earlier one was labeled Positive
C3_Witness ==
    /\ ChunkDone /\ lastResponse.kind = "unparseable"
    /\ idx > batch_size /\ idx < Len(documents)
    /\ results[1].sentiment = "Positive"

\* C4: for a chunk of n texts answered with a list of r labels, position j
\* of the chunk carries the j-th returned label when j <= r and Neutral
\* when j > r (labels beyond the n-th are dropped), and the chunk yields
\* exactly n labels.
C4_Alignment ==
    (ChunkDone /\ lastResponse.kind = "list") =>
        /\ Len(results) = Min(idx, Len(documents))
        /\ \A p \in LastChunk :
               LET j == p - (idx - batch_size) IN
               results[p].sentiment =
                   IF j <= Len(lastResponse.value)
                   THEN lastResponse.value[j] ELSE "Neutral"

\* a chunk of two texts was answered with one label
C4_Witness ==
    /\ ChunkDone /\ lastResponse.kind = "list"
    /\ Cardinality(LastChunk) = 2 /\ Len(lastResponse.value) = 1
    /\ lastResponse.value[1] = "Negative"

\* a chunk was answered with one label too many
C4_WitnessExcess ==
    /\ ChunkDone /\ lastResponse.kind = "list"
    /\ Len(lastResponse.value) = Cardinality(LastChunk) + 1


-----------------------------------------------------------------------------
(* Step 1, chunking and pacing: files of up to MaxTexts different texts *)

\* the i-th text of a numbered file
TextNo(i) == ToString(i)

NumberedSheet(n) == Sheet(RawCols, [i \in 1..n |-> Row(TextNo(i), NaT, NaN, NaN)])

\* the classifier fails, or answers with one label for each text
BriefResponses(n) ==
    {Response("transport", <<>>), Response("list", [j \in 1..n |-> "Positive"])}

ClassifyChunkBrief == ClassifyChunkOver([n \in 0..Len(documents) |-> BriefResponses(n)])

InitChunking ==
    /\ Started("1") /\ EnginesIdle
    /\ batch_size \in 1..MaxBatch
    /\ rawFile \in {[y \in YearSet |-> IF y = ANALYSIS_YEARS[1]
                                       THEN NumberedSheet(n) ELSE NoTextSheet] :
                       n \in 1..MaxTexts}
    /\ resultsFile = NoResults
    /\ partition = NoPartitions

NextChunking ==
    \/ AnalyzeFileStart
    \/ ClassifyChunkBrief
    \/ PacingDelay
    \/ AnalyzeFileSave
    \/ RunSentimentAnalysisEnd

SpecChunking == InitChunking /\ [][NextChunking]_vars

\* ceil(n / b)
CeilDiv(n, b) == (n + b - 1) \div b

\* the c-th of the contiguous chunks of size b of docs
ChunkNo(docs, c, b) == SubSeq(docs, (c - 1) * b + 1, Min(c * b, Len(docs)))

RECURSIVE Concat(_)
Concat(ss) == IF ss = <<>> THEN <<>> ELSE Head(ss) \o Concat(Tail(ss))

\* analyze_file has gone through all chunks of a file with text
ChunksDone ==
    /\ documents # <<>>
    /\ \/ apc = "idle"
       \/ apc = "loop" /\ idx >= Len(documents) /\ ~sleeping

C14_Chunks ==
    /\ \A c \in DOMAIN calls :
           /\ calls[c] = ChunkNo(documents, c, batch_size)
           /\ Len(calls[c]) >= 1 /\ Len(calls[c]) <= batch_size
           /\ c < CeilDiv(Len(documents), batch_size) => Len(calls[c]) = batch_size
    /\ Len(calls) <= CeilDiv(Len(documents), batch_size)
    /\ delays = Len(calls) - (IF sleeping THEN 1 ELSE 0)
    /\ ChunksDone =>
           /\ Len(calls) = CeilDiv(Len(documents), batch_size)
           /\ Concat(calls) = documents
           /\ delays = Len(calls)

C14_CallStep ==
    /\ calls' # calls =>
           \/ calls' = <<>>
           \/ /\ Len(calls') = Len(calls) + 1
              /\ SubSeq(calls', 1, Len(calls)) = calls
              /\ delays = Len(calls) /\ delays' = delays
    /\ delays' # delays =>
           \/ delays' = 0
           \/ delays' = delays + 1 /\ calls' = calls

\* C14: n > 0 texts are split into ceil(n/b) contiguous chunks, each of size
\* b except possibly a smaller last one, whose concatenation is the input;
\* the classifier is called exactly once per chunk, also after a failure,
\* in chunk order; one pacing delay follows each chunk, the last included,
\* and a call is made only when the delays of all chunks before it are over.
C14_ChunkingAndPacing == []C14_Chunks /\ [][C14_CallStep]_vars

\* five texts with batch size 2 went through as chunks of sizes 2, 2, 1,
\* the second of them after a failed call, with three delays
C14_Witness ==
    /\ ChunksDone /\ Len(documents) = 5 /\ batch_size = 2
    /\ Len(calls) = 3 /\ delays = 3
    /\ Len(calls[1]) = 2 /\ Len(calls[2]) = 2 /\ Len(calls[3]) = 1
    /\ resultsFile[ANALYSIS_YEARS[1]].state = "ok"
    /\ resultsFile[ANALYSIS_YEARS[1]].rows[1].sentiment = "Neutral"
    /\ resultsFile[ANALYSIS_YEARS[1]].rows[3].sentiment = "Positive"

-----------------------------------------------------------------------------
(* Step 2 alone: result files with timestamps, some partitions on disk *)

FirstYear == ANALYSIS_YEARS[1]

\* timestamp cells: empty, unparseable, every month of the first year and
\* one month of each later year
Times ==
    {NaT, BadTime} \cup {<<FirstYear, m>> : m \in 1..12}
    \cup {<<ANALYSIS_YEARS[i], 2>> : i \in 2..Len(ANALYSIS_YEARS)}

ResultCols == {"text", "sentiment", "UTC_Time"}

\* a result file step 2 cannot use: unreadable, or without timestamps
BadResultSheets ==
    {Corrupt, Sheet({"text", "sentiment"}, <<Row(NaN, NaT, "a", "Positive")>>)}

TimedSheets ==
    {Sheet(ResultCols, [i \in DOMAIN ts |-> Row(NaN, ts[i], "a", "Positive")]) :
         ts \in SeqsUpTo(Times, MaxRows)}

\* the file of a later year: none, an unusable one, or one record dated in
\* the first year
LaterResultSheets ==
    {Absent, Sheet({"text", "sentiment"}, <<Row(NaN, NaT, "b", "Neutral")>>),
     Sheet(ResultCols, <<Row(NaN, <<FirstYear, 1>>, "b", "Neutral")>>)}

ResultFileSets ==
    {[y \in YearSet |-> IF y = FirstYear THEN a ELSE b] :
         a \in TimedSheets \cup BadResultSheets, b \in LaterResultSheets}

OldSheet == Sheet(ResultCols, <<Row(NaN, <<FirstYear, 3>>, "old", "Negative")>>)

\* partitions found on disk: the first quarter of the first year may hold
\* one record or be unreadable, its second quarter may be unreadable
OldPartitionSets ==
    {[k \in PartitionKeys |->
         IF k = <<YearStr(FirstYear), "Q1">> THEN a
         ELSE IF k = <<YearStr(FirstYear), "Q2">> THEN b ELSE Absent] :
         a \in {Absent, Corrupt, OldSheet}, b \in {Absent, Corrupt}}

NoRawFiles == [y \in YearSet |-> Absent]

InitPartition ==
    /\ Started("2") /\ EnginesIdle
    /\ batch_size = 1
    /\ rawFile = NoRawFiles
    /\ resultsFile \in ResultFileSets
    /\ partition \in OldPartitionSets

NextPartition ==
    \/ ProcessAllFilesStart
    \/ ProcessSingleFileRead
    \/ SaveQuarter
    \/ ProcessSingleFileEnd
    \/ RunQuarterlyDivisionEnd
    \/ RunAgain

SpecPartition == InitPartition /\ [][NextPartition]_vars


-----------------------------------------------------------------------------
(* Step 2: properties *)

\* the file process_single_file is working on
CurrentFile == resultsFile[files[fileIdx]]

ValidCell(t) == t[1] > 0

InQuarter(m, q) ==
    \/ q = "Q1" /\ m \in 1..3
    \/ q = "Q2" /\ m \in 4..6
    \/ q = "Q3" /\ m \in 7..9
    \/ q = "Q4" /\ m \in 10..12

BucketSizes ==
    Len(quarterly_data["Q1"]) + Len(quarterly_data["Q2"])
        + Len(quarterly_data["Q3"]) + Len(quarterly_data["Q4"])

\* C6: bucketing partitions the records with a valid timestamp by month:
\* bucket Q1 holds exactly the records of months 1-3, Q2 of 4-6, Q3 of 7-9,
\* Q4 of 10-12, each such record in one bucket; the records with a missing or
\* unparseable timestamp are in no bucket and are the skipped count; and
\* processed plus skipped is the number of records of the file.
C6_Bucketing ==
    (stage = "division" /\ ppc = "save") =>
        /\ \A q \in QuarterSet :
              /\ Len(quarterly_data[q]) =
                     Cardinality({i \in DOMAIN CurrentFile.rows :
                         /\ ValidCell(CurrentFile.rows[i].UTC_Time)
                         /\ InQuarter(CurrentFile.rows[i].UTC_Time[2], q)})
              /\ \A j \in DOMAIN quarterly_data[q] :
                     /\ ValidCell(quarterly_data[q][j].UTC_Time)
                     /\ InQuarter(quarterly_data[q][j].UTC_Time[2], q)
        /\ processed_count = BucketSizes
        /\ skipped_count =
               Cardinality({i \in DOMAIN CurrentFile.rows :
                   ~ValidCell(CurrentFile.rows[i].UTC_Time)})
        /\ processed_count + skipped_count = Len(CurrentFile.rows)

\* a file with a March record, a December record or none, and a record
\* without a usable timestamp was bucketed
C6_Witness ==
    /\ stage = "division" /\ ppc = "save"
    /\ skipped_count = 1
    /\ \E j \in DOMAIN quarterly_data["Q1"] : quarterly_data["Q1"][j].UTC_Time[2] = 3

\* the save loop went past a non-empty bucket
BucketSaved ==
    /\ ppc = "save" /\ qIdx <= Len(Quarters) /\ qIdx' = qIdx + 1
    /\ quarterly_data[Quarters[qIdx]] # <<>>

C7_MergeStep ==
    /\ \A k \in PartitionKeys :
           partition'[k] # partition[k] => ppc = "save" /\ k = <<year, Quarters[qIdx]>>
    /\ BucketSaved =>
           LET k == <<year, Quarters[qIdx]>> IN
           /\ partition'[k].state = "ok"
           /\ partition'[k].rows =
                  (IF partition[k].state = "ok" THEN partition[k].rows ELSE <<>>)
                      \o quarterly_data[Quarters[qIdx]]

\* C7: merge is concatenation without deduplication: whenever a non-empty
\* bucket is saved, the persisted partition is the records it held before,
\* in their order, followed by all records of the bucket in bucket order
\* (the bucket alone if there was no partition), and a partition changes in
\* no other way.
C7_Concatenation == [][C7_MergeStep]_vars

\* the same two first-quarter records were merged twice into a partition
\* that held one record: it now holds that record and then 2 + 2 records
C7_Witness ==
    LET k == <<YearStr(FirstYear), "Q1">>
        new == resultsFile[FirstYear].rows
    IN  /\ stage = "exit" /\ runs = 2
        /\ \A y \in YearSet \ {FirstYear} : resultsFile[y] = Absent
        /\ Len(new) = 2 /\ new[1] # new[2]
        /\ \A i \in 1..2 : ValidCell(new[i].UTC_Time) /\ InQuarter(new[i].UTC_Time[2], "Q1")
        /\ partition[k].rows = OldSheet.rows \o new \o new

\* C8: a read failure on one existing partition affects only that partition:
\* once process_single_file is over, every non-empty bucket of the file
\* whose partition is not the unreadable one is persisted at the end of its
\* partition.
C8_OtherBucketsMerged ==
    (stage = "division" /\ ppc = "files") =>
        \A q \in QuarterSet :
            LET k == <<year, q>>
                n == Len(quarterly_data[q])
            IN  (n > 0 /\ partition[k].state # "corrupt") =>
                    /\ partition[k].state = "ok"
                    /\ Len(partition[k].rows) >= n
                    /\ SubSeq(partition[k].rows, Len(partition[k].rows) - n + 1,
                              Len(partition[k].rows)) = quarterly_data[q]


-----------------------------------------------------------------------------
(* Step 3 alone: partitions found on disk *)

\* label cells: the three classes, other spellings, another word, empty
AggLabels == ClassLabels \cup {"positive", "POSITIVE", "Mixed", NaN}

LabelSheets ==
    {Sheet(ResultCols, [i \in DOMAIN ls |-> Row(NaN, <<FirstYear, 1>>, "a", ls[i])]) :
         ls \in SeqsUpTo(AggLabels, MaxLabels)}

\* a partition file without the sentiment column
UnlabeledSheet == Sheet({"text", "UTC_Time"}, <<Row(NaN, <<FirstYear, 1>>, "a", NaN)>>)

PlainSheet == Sheet(ResultCols, <<Row(NaN, <<FirstYear, 1>>, "b", "Negative")>>)

\* one partition of any content, at most one other plain partition, all
\* other quarters missing
AggPartitionSets ==
    {[k \in PartitionKeys |-> IF k = k1 THEN a ELSE IF k = k2 THEN PlainSheet ELSE Absent] :
         k1 \in PartitionKeys, k2 \in PartitionKeys,
         a \in LabelSheets \cup {Corrupt, UnlabeledSheet}}

InitAggregate ==
    /\ Started("3") /\ EnginesIdle
    /\ batch_size = 1
    /\ rawFile = NoRawFiles
    /\ resultsFile = NoResults
    /\ partition \in AggPartitionSets

NextAggregate ==
    \/ CollectDataStep
    \/ RunVisualizationEnd

SpecAggregate == InitAggregate /\ [][NextAggregate]_vars


-----------------------------------------------------------------------------
(* Step 3: properties *)

YearOfKey(k) == CHOOSE y \in MinYear..MaxYear : YearStr(y) = k[1]

QuarterNumber(q) == CASE q = "Q1" -> 1 [] q = "Q2" -> 2 [] q = "Q3" -> 3 [] OTHER -> 4

\* chronological order of two quarters
Earlier(k1, k2) ==
    \/ YearOfKey(k1) < YearOfKey(k2)
    \/ YearOfKey(k1) = YearOfKey(k2) /\ QuarterNumber(k1[2]) < QuarterNumber(k2[2])

CollectDone == stage \in {"visualization", "exit"} /\ cursor > CollectSteps

RowKeys == {sentiment_data[i].quarter : i \in DOMAIN sentiment_data}

Chronological ==
    \A i, j \in DOMAIN sentiment_data :
        i < j => Earlier(sentiment_data[i].quarter, sentiment_data[j].quarter)

\* C9 as stated: the rows are in chronological order, one for each quarter
\* of the range whose partition exists and is readable, none for the others.
C9_RowPerReadablePartition ==
    CollectDone =>
        /\ Chronological
        /\ RowKeys = {k \in PartitionKeys : partition[k].state = "ok"}

\* C9 amended: the rows are in chronological order (year ascending, then
\* Q1..Q4), exactly one for each quarter of the range whose partition
\* exists, is readable and has a sentiment column, and none (no row of zeros
\* either) for a quarter whose partition is absent, unreadable or without
\* that column; quarters behind a missing one are still populated.
C9_RowPerUsablePartition ==
    CollectDone =>
        /\ Chronological
        /\ RowKeys = {k \in PartitionKeys :
                         partition[k].state = "ok" /\ "sentiment" \in partition[k].cols}

\* the range was collected with an unreadable partition in it and a row
\* for a later quarter
C9_Witness ==
    /\ CollectDone
    /\ \E k1, k2 \in PartitionKeys :
           /\ partition[k1].state = "corrupt"
           /\ Earlier(k1, k2)
           /\ k1 \notin RowKeys /\ k2 \in RowKeys

CountLabel(rows, label) ==
    Cardinality({i \in DOMAIN rows : rows[i].sentiment = label})

\* no label of the partition is a class name in another spelling
PlainlySpelled(rows) ==
    \A i \in DOMAIN rows :
        rows[i].sentiment \notin {"positive", "negative", "neutral",
                                  "POSITIVE", "NEGATIVE", "NEUTRAL"}

\* C10: for each trend row the percentage of a class is 100 * (records of
\* the partition with that class label) / (records of the partition), 0 for
\* a class that does not occur, and the three percentages of a partition
\* whose records all carry a class label sum to 100.  (Stated for the
\* non-empty partitions whose labels are spelt as the classes are.)
C10_Percentages ==
    \A i \in DOMAIN sentiment_data :
        LET row == sentiment_data[i]
            rows == partition[row.quarter].rows
            total == Len(rows)
            p == row.positive
            n == row.negative
            u == row.neutral
        IN  (total > 0 /\ PlainlySpelled(rows)) =>
                /\ p.num * total = 100 * CountLabel(rows, "Positive") * p.den
                /\ n.num * total = 100 * CountLabel(rows, "Negative") * n.den
                /\ u.num * total = 100 * CountLabel(rows, "Neutral") * u.den
                /\ (\A j \in DOMAIN rows : rows[j].sentiment \in ClassLabels) =>
                       p.num * n.den * u.den + n.num * p.den * u.den
                           + u.num * p.den * n.den = 100 * p.den * n.den * u.den

\* the class a label names when its casing is ignored, "" if none
ClassOf(label) ==
    CASE label \in {"Positive", "positive", "POSITIVE"} -> "Positive"
      [] label \in {"Negative", "negative", "NEGATIVE"} -> "Negative"
      [] label \in {"Neutral", "neutral", "NEUTRAL"} -> "Neutral"
      [] OTHER -> ""

CountClass(rows, class) ==
    Cardinality({i \in DOMAIN rows : ClassOf(rows[i].sentiment) = class})

\* C11: aggregation matches labels case-insensitively: in each trend row
\* the percentage of a class is the share of the records whose label is any
\* casing of the class name (Positive, positive, POSITIVE).  (Stated for
\* the partitions without empty label cells.)
C11_AnyCasingCounted ==
    \A i \in DOMAIN sentiment_data :
        LET row == sentiment_data[i]
            rows == partition[row.quarter].rows
            total == Len(rows)
        IN  (total > 0 /\ \A j \in DOMAIN rows : rows[j].sentiment # NaN) =>
                /\ row.positive.num * total =
                       100 * CountClass(rows, "Positive") * row.positive.den
                /\ row.negative.num * total =
                       100 * CountClass(rows, "Negative") * row.negative.den
                /\ row.neutral.num * total =
                       100 * CountClass(rows, "Neutral") * row.neutral.den

-----------------------------------------------------------------------------
(* Files without a required column *)

LacksColumn(f, col) == f.state = "ok" /\ col \notin f.cols

\* the classification stage is over
AnalysisOver == stage # "analysis"

\* the partition stage is over
DivisionOver == stage \in {"visualization", "exit"} /\ ppc = "files"

\* classification: a raw file without the text column fails no stage, and
\* the files of the other years that hold text are labeled and saved
C12_ClassificationSkips ==
    (AnalysisOver /\ \E y \in YearSet : LacksColumn(rawFile[y], "Tweet_Content")) =>
        /\ success
        /\ \A y \in YearSet :
               (~ExtractRaises(rawFile[y]) /\ extract_text_from_excel(rawFile[y]) # <<>>) =>
                   /\ resultsFile[y].state = "ok"
                   /\ SavedTexts(y) = extract_text_from_excel(rawFile[y])

\* partition: a result file without the timestamp column fails no stage,
\* and the dated records of the other files are persisted (no unreadable
\* partition being in the way)
C12_PartitionSkips ==
    (/\ DivisionOver
     /\ \E y \in YearSet : LacksColumn(resultsFile[y], "UTC_Time")
     /\ \A k \in PartitionKeys : partition[k].state # "corrupt") =>
        /\ success
        /\ \A y \in YearSet : \A i \in DOMAIN resultsFile[y].rows :
               LET r == resultsFile[y].rows[i] IN
               ("UTC_Time" \in resultsFile[y].cols /\ ValidCell(r.UTC_Time)) =>
                   \E k \in PartitionKeys : \E j \in DOMAIN partition[k].rows :
                       partition[k].rows[j] = r

\* C12: when an input file lacks a required column (the text column for the
\* classification stage, the timestamp column for the partition stage) only
\* that file is skipped: no exception aborts the stage and the remaining
\* files of the run are still processed.
C12_MissingColumnSkipsFile == C12_ClassificationSkips /\ C12_PartitionSkips

\* the partition stage skipped a file without timestamps and persisted the
\* record of the next file
C12_PartitionWitness ==
    /\ DivisionOver
    /\ LacksColumn(resultsFile[FirstYear], "UTC_Time")
    /\ \E y \in YearSet \ {FirstYear} : \E k \in PartitionKeys :
           /\ resultsFile[y].state = "ok" /\ resultsFile[y].rows # <<>>
           /\ partition[k].state = "ok"
           /\ partition[k].rows = resultsFile[y].rows

-----------------------------------------------------------------------------
(* Step 2: the partition a record belongs to *)

\* the (year, quarter) of a valid timestamp
OwnKey(t) == <<YearStr(t[1]), CHOOSE q \in QuarterSet : InQuarter(t[2], q)>>

\* C13: a record with a valid timestamp is only ever persisted in the
\* partition whose key is the (year, quarter) of its own timestamp: no
\* partition holds a record dated in another year or another quarter, and
\* once the stage is over (no unreadable partition being in the way) each
\* dated record of each usable file is in its own partition.
C13_OwnYearAndQuarter ==
    /\ \A k \in PartitionKeys : \A j \in DOMAIN partition[k].rows :
           ValidCell(partition[k].rows[j].UTC_Time) =>
               k = OwnKey(partition[k].rows[j].UTC_Time)
    /\ (DivisionOver /\ \A k \in PartitionKeys : partition[k].state # "corrupt") =>
           \A y \in YearSet : \A i \in DOMAIN resultsFile[y].rows :
               LET r == resultsFile[y].rows[i] IN
               ("UTC_Time" \in resultsFile[y].cols /\ ValidCell(r.UTC_Time)) =>
                   /\ partition[OwnKey(r.UTC_Time)].state = "ok"
                   /\ \E j \in DOMAIN partition[OwnKey(r.UTC_Time)].rows :
                          partition[OwnKey(r.UTC_Time)].rows[j] = r

\* what holds instead: every record is persisted in the quarter of its own
\* month, in the partition of the year resolved for its file
C13_OwnQuarter ==
    \A k \in PartitionKeys : \A j \in DOMAIN partition[k].rows :
        ValidCell(partition[k].rows[j].UTC_Time) =>
            k[2] = OwnKey(partition[k].rows[j].UTC_Time)[2]

-----------------------------------------------------------------------------
(* The whole pipeline (mode 4): raw files with timestamps *)

\* raw records: with or without text, with or without a usable timestamp
PipelineRawSheets ==
    {Sheet(RawCols, rs) :
        rs \in SeqsUpTo({Row(t, d, NaN, NaN) :
                            t \in {"a", NaN},
                            d \in {NaT, <<FirstYear, 1>>, <<FirstYear, 5>>}}, MaxRows)}

\* the result file an earlier run left for a year whose raw file has no text
EarlierResultSheet == Sheet(ResultCols, <<Row(NaN, <<FirstYear, 2>>, "b", "Neutral")>>)

InitPipeline ==
    /\ Started("4") /\ EnginesIdle
    /\ batch_size \in 1..MaxBatch
    /\ rawFile \in {[y \in YearSet |-> IF y = FirstYear THEN a ELSE NoTextSheet] :
                       a \in PipelineRawSheets}
    /\ resultsFile \in {[y \in YearSet |-> IF y = FirstYear THEN Absent ELSE b] :
                           b \in {Absent, EarlierResultSheet}}
    /\ partition = NoPartitions

NextPipeline ==
    \/ AnalyzeFileStart
    \/ ClassifyChunk
    \/ PacingDelay
    \/ AnalyzeFileSave
    \/ RunSentimentAnalysisEnd
    \/ ProcessAllFilesStart
    \/ ProcessSingleFileRead
    \/ SaveQuarter
    \/ ProcessSingleFileEnd
    \/ RunQuarterlyDivisionEnd
    \/ CollectDataStep
    \/ RunVisualizationEnd

SpecPipeline == InitPipeline /\ [][NextPipeline]_vars

\* the partitions that hold a record with this text and this timestamp
PartitionsHolding(text, time) ==
    {k \in PartitionKeys :
        \E j \in DOMAIN partition[k].rows :
            /\ partition[k].rows[j].text = text
            /\ partition[k].rows[j].UTC_Time = time}

\* C5: in the full pipeline, once the partition stage is over, every raw
\* record that has text and a valid timestamp is, with its timestamp, in
\* exactly one persisted partition.
C5_RawRecordsPartitioned ==
    (choice = "4" /\ success /\ stage \in {"visualization", "exit"}) =>
        \A y \in YearSet : \A i \in DOMAIN rawFile[y].rows :
            LET r == rawFile[y].rows[i] IN
            (r.Tweet_Content # NaN /\ ValidCell(r.UTC_Time)) =>
                Cardinality(PartitionsHolding(r.Tweet_Content, r.UTC_Time)) = 1

-----------------------------------------------------------------------------
(* run_pipeline.main from its first line: validation, prompt, stages *)

StageNames == {"analysis", "division", "visualization"}

\* input() raised KeyboardInterrupt
Interrupt == "KeyboardInterrupt"

\* what the prompt can give after strip(): a mode, something else, nothing
Inputs == Choices \cup {"6", "", Interrupt}

\* nothing has been read from the prompt yet
NotAsked == "not asked"

\* `if not Config.validate_config(): sys.exit(1)`
ValidateConfig ==
    /\ stage = "validate"
    /\ IF config_valid
       THEN stage' = "prompt" /\ UNCHANGED exit_code
       ELSE stage' = "exit" /\ exit_code' = <<1>>
    /\ UNCHANGED <<choice, success, config_valid, reports, runs, batch_size,
                   rawFile, resultsFile, partition>>
    /\ UNCHANGED analyzerVars /\ UNCHANGED processorVars
    /\ UNCHANGED visualizerVars

\* the prompt and the dispatch on the choice: an interrupt ends main with
\* status 0, a choice that is no mode with status 1
ReadChoice ==
    /\ stage = "prompt"
    /\ \E c \in Inputs :
          /\ choice' = c
          /\ IF c \in Choices
             THEN stage' = FirstStage(c) /\ UNCHANGED exit_code
             ELSE /\ stage' = "exit"
                  /\ exit_code' = <<IF c = Interrupt THEN 0 ELSE 1>>
    /\ success' = TRUE
    /\ UNCHANGED <<config_valid, reports, runs, batch_size, rawFile,
                   resultsFile, partition>>
    /\ UNCHANGED analyzerVars /\ UNCHANGED processorVars
    /\ UNCHANGED visualizerVars

\* files main may find: a raw file with one tweet, without the text column
\* or missing; a result file with one dated record or none; one partition
\* or none
MainRawFiles ==
    {[y \in YearSet |-> IF y = FirstYear THEN a ELSE NoTextSheet] :
         a \in {OneTweet} \cup BadRawSheets}

MainResultFiles ==
    {[y \in YearSet |-> IF y = FirstYear THEN a ELSE Absent] :
         a \in {Absent, EarlierResultSheet}}

MainPartitions ==
    {[k \in PartitionKeys |-> IF k = <<YearStr(FirstYear), "Q1">> THEN a ELSE Absent] :
         a \in {Absent, PlainSheet}}

InitMain ==
    /\ stage = "validate" /\ choice = NotAsked /\ success = TRUE /\ runs = 1
    /\ config_valid \in BOOLEAN
    /\ exit_code = <<>> /\ reports = <<>>
    /\ EnginesIdle
    /\ batch_size = 1
    /\ rawFile \in MainRawFiles
    /\ resultsFile \in MainResultFiles
    /\ partition \in MainPartitions

NextMain ==
    \/ ValidateConfig
    \/ ReadChoice
    \/ AnalyzeFileStart
    \/ ClassifyChunkBrief
    \/ PacingDelay
    \/ AnalyzeFileSave
    \/ RunSentimentAnalysisEnd
    \/ ProcessAllFilesStart
    \/ ProcessSingleFileRead
    \/ SaveQuarter
    \/ ProcessSingleFileEnd
    \/ RunQuarterlyDivisionEnd
    \/ CollectDataStep
    \/ RunVisualizationEnd

SpecMain == InitMain /\ [][NextMain]_vars

-----------------------------------------------------------------------------
(* run_pipeline.main: properties *)

\* the stages of a mode, in the order main runs them
ModeStages(c) ==
    CASE c = "1" -> <<"analysis">>
      [] c = "2" -> <<"division">>
      [] c = "3" -> <<"visualization">>
      [] c = "4" -> <<"analysis", "division", "visualization">>
      [] c = "5" -> <<"division", "visualization">>
      [] OTHER -> <<>>

Exited == exit_code # <<>>

SomeStageFailed == \E i \in DOMAIN reports : ~reports[i].ok

\* the stages started so far: those that returned and the one running
StagesStarted ==
    [i \in DOMAIN reports |-> reports[i].stage]
        \o (IF stage \in StageNames THEN <<stage>> ELSE <<>>)

\* a stage is started only after every stage before it in the mode
\* returned True, and no stage at all after a failed validation
C15_StagesGuarded ==
    /\ ~config_valid => StagesStarted = <<>>
    /\ Len(StagesStarted) <= Len(ModeStages(choice))
    /\ StagesStarted = SubSeq(ModeStages(choice), 1, Len(StagesStarted))
    /\ \A i \in DOMAIN reports : i < Len(StagesStarted) => reports[i].ok
    /\ (Exited /\ exit_code = <<0>> /\ choice \in Choices) =>
           Len(reports) = Len(ModeStages(choice))

\* C15 as stated: the status is non-zero if validation failed or a stage
\* reported failure, and zero otherwise.
C15_ExitStatus ==
    /\ C15_StagesGuarded
    /\ Exited =>
           exit_code = <<IF ~config_valid \/ SomeStageFailed THEN 1 ELSE 0>>

\* C15 amended: main exits non-zero if configuration validation fails
\* (before any stage runs), if the choice entered is none of the five modes
\* (no stage runs), or if a stage of the mode reports failure, and exits
\* zero otherwise, an interrupt at the prompt included; in the multi-stage
\* modes (1->2->3 and 2->3) the stages run in that order and a stage is
\* started only if every earlier one reported success.
C15_ExitStatusOfModes ==
    /\ C15_StagesGuarded
    /\ Exited =>
           exit_code =
               <<IF \/ ~config_valid
                    \/ choice \notin Choices \cup {Interrupt}
                    \/ SomeStageFailed
                 THEN 1 ELSE 0>>

\* the full pipeline ended non-zero after its third stage failed
C15_Witness ==
    /\ choice = "4" /\ Exited /\ exit_code = <<1>>
    /\ Len(reports) = 3 /\ reports[1].ok /\ reports[2].ok /\ ~reports[3].ok

\* the full pipeline ended non-zero after its first stage failed
C15_WitnessShortCircuit ==
    /\ choice = "4" /\ Exited /\ exit_code = <<1>>
    /\ Len(reports) = 1 /\ ~reports[1].ok

\* a choice that is no mode ended main non-zero without any stage
C15_WitnessNoMode ==
    /\ config_valid /\ choice = "6" /\ Exited /\ exit_code = <<1>>
    /\ reports = <<>>

=============================================================================
